---- MODULE Spec2Model ----
(***************************************************************************)
(* Table column resizing (TableColumnResizeEditing): the width consistency *)
(* post-fixer and the pointer-driven resize controller; the dropdown menu  *)
(* root list (DropdownMenuRootListView) and its filtered view.             *)
(*                                                                         *)
(* Numbers.  A percentage is an integer count of units of 1/300 %, so that *)
(* both the two-decimal grid of toPrecision() (3 units) and the unrounded  *)
(* minimum column width 40*100/tableWidth of a 300px or 400px wide table   *)
(* are exact.  Pixel values are integers.                                  *)
(***************************************************************************)
EXTENDS Integers, Sequences, FiniteSets, TLC

\* ------------------------------------------------------------------ bounds
MaxCols == 5
MaxEdits == 2
MaxInsert == 2
PassCap == 4
MaxPresses == 2
MaxLayoutChanges == 3
MaxTaskEvents == 2
MaxItems == 3
MaxFilterCalls == 5

\* --------------------------------------------------------------- constants
COLUMN_MIN_WIDTH_IN_PIXELS == 40

PctUnit == 3 * 100
Hundred == 100 * PctUnit
NaN == 0 - 1

VARIABLES
    \* model table
    rows,            \* table rows, each a sequence of cells [id, span]
    columnWidths,    \* the table's columnWidths attribute
    touched,         \* the differ reports the table as changed in this batch
    tableWidthPx,    \* rendered width of the table in pixels
    \* plugin
    columnIndexMap,  \* this._columnIndexMap: cell id -> column index
    \* document change cycle
    phase,           \* "idle" | "editing" | "fixing"
    nextId,          \* next fresh cell id
    edits,           \* structural edits made so far
    \* observation of the last post-fixer pass and of the current batch
    passNo, lastPass, batch, batchStart,
    \* editor and plugin state the controller's flag is bound to
    isReadOnly, pluginIsEnabled,
    \* TableColumnResizeEditing
    isResizingActive, isResizingAllowed, resizingData, draggingState,
    \* model table attributes
    tableWidth, tableAlignment,
    \* view: the col widths of the colgroup, the width style of the figure,
    \* the resizers carrying the active class, the ck-table-resized class
    viewColgroup, viewFigureWidth, activeResizers, tableResized,
    \* locale and DOM geometry
    isLtrContent, parentPx, naturalTablePx,
    \* observation of the presses and of the last handler
    presses, session, lastEvent,
    \* the result of _calculateDomColumnWidths
    measuredWidthsInPx,
    \* colgroup fixer: the model and the view selection are inside a table,
    \* the 'layoutChanged' notifications and the reconversions so far
    modelTableSelected, viewTableSelected, layoutChanges, reconversions,
    \* DropdownMenuRootListView: this.menus, the isOpen of every menu view, the
    \* parentMenuView of every menu view, the menus whose items were created
    menus, menuIsOpen, parentMenuView, built,
    \* the delegations of the views and the components with an 'execute' listener
    delegations, executeListeners,
    \* the isOpen of the root list and the pending timer of its updater
    isOpen, closeTimeout,
    \* observation of the changes made in the current task and of the last event
    task, lastMenuEvent,
    \* DropdownMenuListFilteredView: the children of its element, this._foundListView,
    \* the isRendered of this._menuView
    element, foundListView, menuViewIsRendered,
    \* observation of the render() calls of this._menuView and of the filter() calls
    menuViewRenders, filterCalls, lastFilter

pfVars == << rows, columnWidths, touched, tableWidthPx, columnIndexMap,
             phase, nextId, edits, passNo, lastPass, batch, batchStart >>

\* the controller's own variables
rcVars == << isReadOnly, pluginIsEnabled, isResizingActive, isResizingAllowed,
             resizingData, draggingState, tableWidth, tableAlignment,
             viewColgroup, viewFigureWidth, activeResizers, tableResized,
             isLtrContent, parentPx, naturalTablePx, presses, session, lastEvent >>

fixerVars == << modelTableSelected, viewTableSelected, layoutChanges, reconversions >>

menuVars == << menus, menuIsOpen, parentMenuView, built, delegations, executeListeners,
               isOpen, closeTimeout, task, lastMenuEvent >>

filteredVars == << element, foundListView, menuViewIsRendered, menuViewRenders,
                   filterCalls, lastFilter >>

\* what the post-fixer specification leaves alone
rcOnly == << rcVars, measuredWidthsInPx, fixerVars, menuVars, filteredVars >>

\* what the controller specification leaves alone
pfOnly == << rows, touched, phase, nextId, edits, passNo, lastPass, batch, batchStart,
             measuredWidthsInPx, fixerVars, menuVars, filteredVars >>

vars == << pfVars, rcVars, measuredWidthsInPx, fixerVars, menuVars, filteredVars >>

\* ---------------------------------------------------------------- helpers
\* the element of a one-element set: a value computed once and then used
TheOne(S) == CHOOSE x \in S : TRUE

RECURSIVE SumTo(_, _)
SumTo(s, k) ==
    IF k = 0 THEN 0
    ELSE IF s[k] = NaN \/ SumTo(s, k - 1) = NaN THEN NaN
    ELSE s[k] + SumTo(s, k - 1)

\* the sum of the numbers of an array; NaN when an entry is not a number
sumArray(s) == SumTo(s, Len(s))

Add(a, b) == IF a = NaN \/ b = NaN THEN NaN ELSE a + b

createFilledArray(n, v) == [i \in 1..n |-> v]

\* Math.round( n / d ): half rounds up.
RoundDiv(n, d) == (2 * n + d) \div (2 * d)

\* toPrecision( n / d ) of a number of percent: rounded to two decimals,
\* the result in units.
toPrecision(n, d) == 3 * RoundDiv(100 * n, d)

getColumnMinWidthAsPercentage(px) == (COLUMN_MIN_WIDTH_IN_PIXELS * 100 * PctUnit) \div px

normalizeColumnWidths(ws) ==
    LET total == sumArray(ws)
        scaled == [i \in 1..Len(ws) |-> toPrecision(ws[i] * 100, total)]
        total2 == sumArray(scaled)
    IN  IF total = Hundred \/ ws = << >> THEN ws
        ELSE [i \in 1..Len(ws) |->
                IF i = Len(ws) THEN toPrecision(scaled[i] + Hundred - total2, PctUnit)
                ELSE scaled[i]]

\* Array.prototype.splice( start, deleteCount, ...items ), 0-based start.
SpliceStart(ws, start) == IF start > Len(ws) THEN Len(ws) ELSE start
SpliceCount(ws, start, cnt) ==
    LET s == SpliceStart(ws, start)
    IN  IF cnt < 0 THEN 0 ELSE IF cnt > Len(ws) - s THEN Len(ws) - s ELSE cnt
SpliceRemoved(ws, start, cnt) ==
    SubSeq(ws, SpliceStart(ws, start) + 1, SpliceStart(ws, start) + SpliceCount(ws, start, cnt))
SpliceResult(ws, start, cnt, items) ==
    LET s == SpliceStart(ws, start)
        c == SpliceCount(ws, start, cnt)
    IN  SubSeq(ws, 1, s) \o items \o SubSeq(ws, s + c + 1, Len(ws))

\* array[ index ] += value, 0-based index; a missing entry is undefined and
\* undefined + value is NaN, the array growing up to the index.
AddAt(ws, index, value) ==
    IF index < 0 THEN ws
    ELSE IF index < Len(ws) THEN [ws EXCEPT ![index + 1] = Add(@, value)]
    ELSE ws \o createFilledArray(index + 1 - Len(ws), NaN)

\* ------------------------------------------------------- table structure
RECURSIVE SpanSum(_, _)
SpanSum(row, k) == IF k = 0 THEN 0 ELSE row[k].span + SpanSum(row, k - 1)

getColumns(rs) == SpanSum(rs[1], Len(rs[1]))

RowSlots(row) ==
    [i \in 1..Len(row) |->
        [cell |-> row[i].id, column |-> SpanSum(row, i - 1), cellWidth |-> row[i].span]]

RECURSIVE WalkRows(_, _)
WalkRows(rs, r) == IF r = 0 THEN << >> ELSE WalkRows(rs, r - 1) \o RowSlots(rs[r])

\* the slots a TableWalker yields: row by row, each cell at its anchor column
TableWalker(rs) == WalkRows(rs, Len(rs))

CellIds(rs) == UNION {{rs[r][i].id : i \in 1..Len(rs[r])} : r \in 1..Len(rs)}

NewCells(first, n) == [i \in 1..n |-> [id |-> first + i - 1, span |-> 1]]

\* TableUtils.insertColumns for one row: n columns before column index at.
RECURSIVE InsertInRow(_, _, _, _, _)
InsertInRow(row, k, at, n, first) ==
    IF k > Len(row) THEN row \o NewCells(first, n)
    ELSE LET c == SpanSum(row, k - 1)
         IN  IF c = at
             THEN SubSeq(row, 1, k - 1) \o NewCells(first, n) \o SubSeq(row, k, Len(row))
             ELSE IF c < at /\ at < c + row[k].span
             THEN [row EXCEPT ![k].span = @ + n]
             ELSE InsertInRow(row, k + 1, at, n, first)

insertColumns(rs, at, n, first) ==
    [r \in 1..Len(rs) |-> InsertInRow(rs[r], 1, at, n, first + (r - 1) * n)]

\* TableUtils.removeColumns for one row: columns at .. at+n-1.
Overlap(c, s, at, n) ==
    LET lo == IF c > at THEN c ELSE at
        hi == IF c + s < at + n THEN c + s ELSE at + n
    IN  IF hi > lo THEN hi - lo ELSE 0

RECURSIVE RemoveInRow(_, _, _, _)
RemoveInRow(row, k, at, n) ==
    IF k > Len(row) THEN << >>
    ELSE LET c == SpanSum(row, k - 1)
             s == row[k].span - Overlap(c, row[k].span, at, n)
             rest == RemoveInRow(row, k + 1, at, n)
         IN  IF s = 0 THEN rest ELSE << [row[k] EXCEPT !.span = s] >> \o rest

removeColumns(rs, at, n) == [r \in 1..Len(rs) |-> RemoveInRow(rs[r], 1, at, n)]

\* ------------------------------------------------------------ attributes
\* An attribute value is the list of its percentages and whether its text is
\* the text `${ width }%` joined by ',' that the post-fixer itself produces.
NoAttr == [has |-> FALSE, ws |-> << >>, canon |-> TRUE]
Attr(ws, canon) == [has |-> TRUE, ws |-> ws, canon |-> canon]

\* table.getAttribute( 'columnWidths' ).split( ',' ) parsed to numbers
ParseColumnWidths(attr) == attr.ws

\* columnWidths.map( width => `${ width }%` ).join( ',' )
SerializeColumnWidths(ws) == Attr(ws, TRUE)

\* ------------------------------------------------------------ post-fixer
getChangedTables(isTouched, attr) == isTouched /\ attr.has

\* (3.1) column insertion detected on a tracked cell
HandleColumnInsertion(acc, cell, previousColumn, column, minW) ==
    [acc EXCEPT
        !.ws = IF acc.insHandled THEN @
               ELSE SpliceResult(@, previousColumn, 0, createFilledArray(column - previousColumn, minW)),
        !.insHandled = TRUE,
        !.map = [@ EXCEPT ![cell] = column],
        !.changed = TRUE,
        !.inserted = IF acc.insHandled THEN @ ELSE @ + (column - previousColumn)]

\* a deletion that drops the removed widths instead of donating them
HandleColumnDeletionDiscarding(acc, cell, previousColumn, column) ==
    [acc EXCEPT
        !.ws = IF acc.delHandled THEN @
               ELSE SpliceResult(@, column, previousColumn - column, << >>),
        !.delHandled = TRUE,
        !.map = [@ EXCEPT ![cell] = column],
        !.changed = TRUE]

\* (3.1) column deletion detected on a tracked cell
HandleColumnDeletion(acc, cell, previousColumn, column) ==
    LET columnToExpand == IF column > 0 THEN column - 1 ELSE column
        removedColumnWidths == SpliceRemoved(acc.ws, column, previousColumn - column)
        spliced == SpliceResult(acc.ws, column, previousColumn - column, << >>)
    IN  [acc EXCEPT
            !.ws = IF acc.delHandled THEN @
                   ELSE AddAt(spliced, columnToExpand, sumArray(removedColumnWidths)),
            !.delHandled = TRUE,
            !.map = [@ EXCEPT ![cell] = column],
            !.changed = TRUE]

\* a loop body that reports an untracked cell without tracking it
ProcessSlotForgetting(acc, slot, minW) ==
    IF slot.cell \notin DOMAIN acc.map
    THEN [acc EXCEPT !.changed = TRUE]
    ELSE acc

\* a loop body that takes an untracked cell for the sign of an inserted column
ProcessSlotSplicing(acc, slot, minW) ==
    IF slot.cell \notin DOMAIN acc.map
    THEN [acc EXCEPT !.map = (slot.cell :> slot.column) @@ @, !.changed = TRUE,
                     !.ws = IF acc.insHandled THEN @
                            ELSE SpliceResult(@, slot.column, 0, << minW >>),
                     !.insHandled = TRUE]
    ELSE LET previousColumn == acc.map[slot.cell]
             a1 == IF previousColumn < slot.column
                   THEN HandleColumnInsertion(acc, slot.cell, previousColumn, slot.column, minW)
                   ELSE acc
         IN  IF previousColumn > slot.column
             THEN HandleColumnDeletion(a1, slot.cell, previousColumn, slot.column)
             ELSE a1

\* body of the loop over the table walker
ProcessSlot(acc, slot, minW) ==
    IF slot.cell \notin DOMAIN acc.map
    THEN [acc EXCEPT !.map = (slot.cell :> slot.column) @@ @, !.changed = TRUE]
    ELSE LET previousColumn == acc.map[slot.cell]
             a1 == IF previousColumn < slot.column
                   THEN HandleColumnInsertion(acc, slot.cell, previousColumn, slot.column, minW)
                   ELSE acc
         IN  IF previousColumn > slot.column
             THEN HandleColumnDeletion(a1, slot.cell, previousColumn, slot.column)
             ELSE a1

RECURSIVE ProcessSlots(_, _, _, _)
ProcessSlots(slots, i, acc, minW) ==
    IF i > Len(slots) THEN acc
    ELSE ProcessSlots(slots, i + 1, ProcessSlot(acc, slots[i], minW), minW)

\* no handling of a column inserted at the table end
HandleColumnInsertionAtEndSkipped(ws, numberOfColumns, minW) == ws

\* (3.2) column insertion at the table end
HandleColumnInsertionAtEnd(ws, numberOfColumns, minW) ==
    IF numberOfColumns > Len(ws)
    THEN SpliceResult(ws, Len(ws), 0, createFilledArray(numberOfColumns - Len(ws), minW))
    ELSE ws

\* a deletion at the table end that donates to the index after the last column
HandleColumnDeletionAtEndPastLast(ws, numberOfColumns) ==
    IF numberOfColumns < Len(ws)
    THEN AddAt(SpliceResult(ws, numberOfColumns, Len(ws) - numberOfColumns, << >>),
               numberOfColumns,
               sumArray(SpliceRemoved(ws, numberOfColumns, Len(ws) - numberOfColumns)))
    ELSE ws

\* (3.2) column deletion at the table end
HandleColumnDeletionAtEnd(ws, numberOfColumns) ==
    IF numberOfColumns < Len(ws)
    THEN AddAt(SpliceResult(ws, numberOfColumns, Len(ws) - numberOfColumns, << >>),
               numberOfColumns - 1,
               sumArray(SpliceRemoved(ws, numberOfColumns, Len(ws) - numberOfColumns)))
    ELSE ws

\* a write-back that does not compare with the stored attribute
AttributeDiffersAlways(attr, ws) == TRUE

\* the attribute is written unless its text is the serialized widths
AttributeDiffers(attr, ws) == attr # SerializeColumnWidths(ws)

\* One invocation of the registered post-fixer callback.
PostFixerPass(attr, map, rs, isTouched, px) ==
    IF ~getChangedTables(isTouched, attr)
    THEN [attr |-> attr, map |-> map, changed |-> FALSE, wrote |-> FALSE, ran |-> FALSE,
          normalized |-> << >>, inserted |-> 0]
    ELSE LET minW == getColumnMinWidthAsPercentage(px)
             normalized == normalizeColumnWidths(ParseColumnWidths(attr))
             acc0 == [ws |-> normalized, map |-> map, changed |-> FALSE,
                      insHandled |-> FALSE, delHandled |-> FALSE, inserted |-> 0]
             numberOfColumns == getColumns(rs)
         IN  TheOne({
               LET atEnd == IF numberOfColumns > Len(acc.ws)
                            THEN numberOfColumns - Len(acc.ws) ELSE 0
                   ws1 == HandleColumnInsertionAtEnd(acc.ws, numberOfColumns, minW)
                   ws2 == HandleColumnDeletionAtEnd(ws1, numberOfColumns)
                   write == AttributeDiffers(attr, ws2)
               IN  [attr |-> IF write THEN SerializeColumnWidths(ws2) ELSE attr,
                    map |-> acc.map,
                    changed |-> acc.changed \/ write,
                    wrote |-> write,
                    ran |-> TRUE,
                    normalized |-> normalized,
                    inserted |-> acc.inserted + atEnd]
               : acc \in {ProcessSlots(TableWalker(rs), 1, acc0, minW)} })

\* ------------------------------------------------- controller: values
NoWidth == [has |-> FALSE, w |-> 0]
Width(w) == [has |-> TRUE, w |-> w]

NotAResizer == 0 - 1

NoData == [columnPosition |-> 0, isRightEdge |-> FALSE, isTableCentered |-> FALSE,
           isLtrContent |-> FALSE, viewResizer |-> NotAResizer,
           leftColumnIndex |-> 0, viewFigureParentWidth |-> 0, viewFigureWidth |-> 0,
           tableWidth |-> 0, leftColumnWidth |-> 0, rightColumnWidth |-> 0]

NoSession == [columnWidths |-> NoAttr, tableWidth |-> NoWidth, viewColgroup |-> NoAttr,
              viewFigureWidth |-> NoWidth, allowedAtPress |-> FALSE, moved |-> FALSE,
              enabled |-> FALSE]

NoEvent == [kind |-> "none", opened |-> FALSE, command |-> "none",
            commandIsEnabled |-> FALSE, mutated |-> FALSE, ended |-> FALSE,
            resizer |-> NotAResizer, allowed |-> FALSE,
            isColumnWidthsAttributeChanged |-> FALSE, isTableWidthAttributeChanged |-> FALSE,
            columnWidths |-> NoAttr, displacement |-> 0, dx |-> 0,
            signal |-> "none"]

\* the controller at rest with everything enabled
ControllerAtRest ==
    /\ isReadOnly = FALSE
    /\ pluginIsEnabled = TRUE
    /\ isResizingActive = FALSE
    /\ isResizingAllowed = TRUE
    /\ resizingData = NoData
    /\ draggingState = "notdragging"
    /\ activeResizers = {}
    /\ presses = 0
    /\ session = NoSession
    /\ lastEvent = NoEvent
    /\ measuredWidthsInPx = << >>

\* the colgroup fixer before any notification
FixerAtRest ==
    /\ modelTableSelected = FALSE
    /\ viewTableSelected = FALSE
    /\ layoutChanges = 0
    /\ reconversions = 0

\* ------------------------------------------------------------ dropdown menu
\* The definition handed to DropdownMenuRootListView: two top-level menus;
\* "menuA" holds the nested menu "menuA1" and a button, "menuA1" holds a
\* button, "menuB" holds a button and "menuB1", a DropdownMenuView instance
\* whose panel holds no list.
Root == "root"

NoMenu == "null"

TopLevelItems == << "menuA", "menuB" >>

MenuItems ==
    [menuA |-> << "menuA1", "buttonA" >>,
     menuA1 |-> << "buttonA1" >>,
     menuB |-> << "buttonB", "menuB1" >>]

MenuDefinitions == DOMAIN MenuItems

\* the items for which isDropdownMenuViewItem() holds
MenuViewItems == {"buttonA", "buttonA1", "buttonB", "menuB1"}

\* the view items that are instances of DropdownMenuView
MenuViewInstances == {"menuB1"}

MenuViews == MenuDefinitions \cup MenuViewInstances

\* the DropdownMenuListItemView that wraps a menu or a component
ListItemOf ==
    [menuA |-> "itemOfMenuA", menuB |-> "itemOfMenuB", menuA1 |-> "itemOfMenuA1",
     menuB1 |-> "itemOfMenuB1", buttonA |-> "itemOfButtonA",
     buttonA1 |-> "itemOfButtonA1", buttonB |-> "itemOfButtonB"]

EVENT_NAME_DELEGATES == {"mouseenter", "arrowleft", "arrowright", "change:isOpen"}

\* name => 'menu:' + name
MenuEventName ==
    [e \in EVENT_NAME_DELEGATES |->
        CASE e = "mouseenter" -> "menu:mouseenter"
          [] e = "arrowleft" -> "menu:arrowleft"
          [] e = "arrowright" -> "menu:arrowright"
          [] e = "change:isOpen" -> "menu:change:isOpen"]

Range(s) == {s[i] : i \in 1..Len(s)}

\* emitter.delegate( ...events ).to( destination, name ): the destinations of
\* an event are a map keyed by the destination emitter, so that delegating an
\* event to the same destination again replaces the entry
Delegate(dels, from, events, to, prefixed) ==
    {d \in dels : ~(d.from = from /\ d.event \in events /\ d.to = to)}
        \cup {[from |-> from, event |-> e, to |-> to,
               as |-> IF prefixed THEN MenuEventName[e] ELSE e] : e \in events}

\* the firing points (an emitter and an event name) reached, in order, when
\* `emitter` fires `name`: the emitter's own listeners run, then the event
\* is fired on every destination it is delegated to
RECURSIVE FirePoints(_, _, _)
RECURSIVE FireDelegated(_, _)
FirePoints(dels, emitter, name) ==
    << [emitter |-> emitter, name |-> name] >>
        \o FireDelegated(dels, {d \in dels : d.from = emitter /\ d.event = name})

FireDelegated(dels, out) ==
    IF out = {} THEN << >>
    ELSE LET d == CHOOSE x \in out : TRUE
         IN FirePoints(dels, d.to, d.as) \o FireDelegated(dels, out \ {d})

\* the firing points reached when `emitter` fires `name`, each with the
\* number of times it is fired
Fired(dels, emitter, name) ==
    TheOne({ {[emitter |-> points[i].emitter, name |-> points[i].name,
               count |-> Cardinality({j \in 1..Len(points) : points[j] = points[i]})] :
                  i \in 1..Len(points)} :
             points \in {FirePoints(dels, emitter, name)} })

\* no event yet; `task` is the task a timer callback follows, `closed` the
\* menus that were open when close() was called
NoMenuEvent == [kind |-> "none", source |-> NoMenu, fired |-> {}, task |-> << >>, closed |-> {}]

\* a registerMenu() that delegates the events of every menu to the root list
registerMenuAtRoot(st, menuView, parent) ==
    [st EXCEPT
        !.delegations = Delegate(st.delegations, menuView, EVENT_NAME_DELEGATES, Root, TRUE),
        !.parentMenuView =
            IF parent # NoMenu
            THEN [st.parentMenuView EXCEPT ![menuView] = parent]
            ELSE st.parentMenuView,
        !.menus = Append(st.menus, menuView)]

\* registerMenu( menuView, parentMenuView ) on the registry st
registerMenu(st, menuView, parent) ==
    [st EXCEPT
        !.delegations =
            IF parent # NoMenu
            THEN Delegate(st.delegations, menuView, EVENT_NAME_DELEGATES, parent, FALSE)
            ELSE Delegate(st.delegations, menuView, EVENT_NAME_DELEGATES, Root, TRUE),
        !.parentMenuView =
            IF parent # NoMenu
            THEN [st.parentMenuView EXCEPT ![menuView] = parent]
            ELSE st.parentMenuView,
        !.menus = Append(st.menus, menuView)]

\* _registerMenuTree( componentView, parentMenuView ); the panel of a menu
\* instance holds no list
registerMenuTree(st, componentView, parent) ==
    IF componentView \notin MenuViewInstances
    THEN [st EXCEPT !.delegations =
             Delegate(st.delegations, componentView, {"mouseenter"}, parent, FALSE)]
    ELSE LET reg == registerMenu(st, componentView, parent)
         IN [reg EXCEPT !.delegations =
                Delegate(reg.delegations, componentView, {"mouseenter"}, parent, FALSE)]

\* _createMenuItemContentFromInstance( { component, parentMenuView } )
createMenuItemContentFromInstance(st, component, parent) ==
    LET reg == registerMenuTree(st, component, parent)
    IN [reg EXCEPT !.executeListeners = reg.executeListeners \cup {component}]

\* new DropdownMenuListItemView( locale, parentMenuView ): the item delegates
\* 'mouseenter' to the menu it was given
newListItemView(st, item, parent) ==
    IF parent # NoMenu
    THEN [st EXCEPT !.delegations =
             Delegate(st.delegations, item, {"mouseenter"}, parent, FALSE)]
    ELSE st

\* _createMenuItems( { menuDefinition, parentMenuView } ), from item i on;
\* _createMenu() registers a nested menu and defers its own items
RECURSIVE createMenuItems(_, _, _)
createMenuItems(st, menuView, i) ==
    IF i > Len(MenuItems[menuView]) THEN st
    ELSE LET itemDefinition == MenuItems[menuView][i]
             withItem == newListItemView(st, ListItemOf[itemDefinition], menuView)
         IN createMenuItems(
                IF itemDefinition \in MenuViewItems
                THEN createMenuItemContentFromInstance(withItem, itemDefinition, menuView)
                ELSE registerMenu(withItem, itemDefinition, menuView),
                menuView, i + 1)

\* _createFromDefinition( definition ), from item i on
RECURSIVE createFromDefinition(_, _)
createFromDefinition(st, i) ==
    IF i > Len(TopLevelItems) THEN st
    ELSE createFromDefinition(
             registerMenu(newListItemView(st, ListItemOf[TopLevelItems[i]], NoMenu),
                          TopLevelItems[i], NoMenu),
             i + 1)

EmptyRegistry ==
    [menus |-> << >>,
     parentMenuView |-> [m \in MenuViews |-> NoMenu],
     delegations |-> {},
     executeListeners |-> {}]

\* the registry the constructor of DropdownMenuRootListView leaves
ConstructedRegistry == createFromDefinition(EmptyRegistry, 1)

\* the root list after its constructor
MenusConstructed ==
    /\ menus = ConstructedRegistry.menus
    /\ parentMenuView = ConstructedRegistry.parentMenuView
    /\ delegations = ConstructedRegistry.delegations
    /\ executeListeners = ConstructedRegistry.executeListeners
    /\ menuIsOpen = [m \in MenuViews |-> FALSE]
    /\ built = {}
    /\ isOpen = FALSE
    /\ closeTimeout = FALSE
    /\ task = << >>
    /\ lastMenuEvent = NoMenuEvent

\* ------------------------------------------------------------ filtered view
NoView == [view |-> "null", id |-> 0]

MenuViewChild == [view |-> "menuView", id |-> 0]

FoundListChild(n) == [view |-> "foundListView", id |-> n]

NoFilter == [resultsCount |-> 0, totalItemsCount |-> 0]

\* the filtered view after its constructor and its render()
FilteredViewConstructed ==
    /\ element = << >>
    /\ foundListView = NoView
    /\ menuViewIsRendered = FALSE
    /\ menuViewRenders = 0
    /\ filterCalls = 0
    /\ lastFilter = NoFilter

\* ------------------------------------------------------------------- Init
Cell(i, s) == [id |-> i, span |-> s]

InitTables ==
    { << << Cell(1, 1), Cell(2, 1), Cell(3, 1) >> >>,
      << << Cell(1, 2), Cell(2, 1) >>, << Cell(3, 1), Cell(4, 1), Cell(5, 1) >> >>,
      << << Cell(1, 1), Cell(2, 2), Cell(3, 1) >>,
         << Cell(4, 1), Cell(5, 1), Cell(6, 1), Cell(7, 1) >> >> }

Pct(p) == p * PctUnit

InitWidths(k) ==
    IF k = 3 THEN { Attr(ws, canon) : ws \in { << Pct(25), Pct(25), Pct(50) >>,
                                              << 9999, 9999, 10002 >>,
                                              << Pct(50), Pct(50), Pct(50) >> },
                                      canon \in BOOLEAN }
    ELSE { Attr(<< Pct(10), Pct(20), Pct(30), Pct(40) >>, canon) : canon \in BOOLEAN }

\* the rendered widths of the tables, in pixels
InitTableWidths == {300, 400}

NoPass == [ran |-> FALSE, wrote |-> FALSE, changed |-> FALSE, inserted |-> 0,
           pre |-> NoAttr, normalized |-> << >>, map |-> << >>, minW |-> 0,
           prevRan |-> FALSE, prevInserted |-> 0]

InitPostFixer ==
    /\ rows \in InitTables
    /\ columnWidths \in InitWidths(getColumns(rows))
    /\ tableWidthPx \in InitTableWidths
    /\ touched = TRUE
    /\ columnIndexMap = << >>
    /\ phase = "fixing"
    /\ nextId = 8
    /\ edits = 0
    /\ passNo = 0
    /\ lastPass = NoPass
    /\ batch = << >>
    /\ batchStart = NoAttr
    /\ ControllerAtRest
    /\ MenusConstructed
    /\ FilteredViewConstructed
    /\ FixerAtRest
    /\ tableWidth = NoWidth
    /\ tableAlignment = FALSE
    /\ viewColgroup = NoAttr
    /\ viewFigureWidth = NoWidth
    /\ tableResized = FALSE
    /\ isLtrContent = TRUE
    /\ parentPx = 0
    /\ naturalTablePx = 0

\* ---------------------------------------------------------------- actions
\* A structural edit inside a change block: TableUtils.insertColumns.
InsertColumns ==
    /\ phase \in {"idle", "editing"}
    /\ edits < MaxEdits
    /\ \E at \in 0..getColumns(rows), n \in 1..MaxInsert :
          /\ getColumns(rows) + n <= MaxCols
          /\ rows' = insertColumns(rows, at, n, nextId)
          /\ nextId' = nextId + n * Len(rows)
          /\ batch' = Append(batch, [kind |-> "insert", at |-> at, n |-> n])
    /\ batchStart' = IF phase = "idle" THEN columnWidths ELSE batchStart
    /\ edits' = edits + 1
    /\ touched' = TRUE
    /\ phase' = "editing"
    /\ UNCHANGED << columnWidths, tableWidthPx, columnIndexMap, passNo, lastPass >>
    /\ UNCHANGED rcOnly

\* A structural edit inside a change block: TableUtils.removeColumns.
RemoveColumns ==
    /\ phase \in {"idle", "editing"}
    /\ edits < MaxEdits
    /\ \E at \in 0..(getColumns(rows) - 1), n \in 1..MaxInsert :
          /\ at + n <= getColumns(rows)
          /\ n < getColumns(rows)
          /\ rows' = removeColumns(rows, at, n)
          /\ batch' = Append(batch, [kind |-> "remove", at |-> at, n |-> n])
    /\ batchStart' = IF phase = "idle" THEN columnWidths ELSE batchStart
    /\ edits' = edits + 1
    /\ touched' = TRUE
    /\ phase' = "editing"
    /\ UNCHANGED << columnWidths, tableWidthPx, columnIndexMap, nextId, passNo, lastPass >>
    /\ UNCHANGED rcOnly

\* The change block ends; the post-fixers are about to run.
EndBatch ==
    /\ phase = "editing"
    /\ phase' = "fixing"
    /\ passNo' = 0
    /\ UNCHANGED << rows, columnWidths, touched, tableWidthPx, columnIndexMap,
                    nextId, edits, lastPass, batch, batchStart >>
    /\ UNCHANGED rcOnly

\* One post-fixer pass; the document runs the post-fixers again while one of
\* them returns true, then resets the differ.
PostFixer ==
    /\ phase = "fixing"
    /\ \E r \in {PostFixerPass(columnWidths, columnIndexMap, rows, touched, tableWidthPx)} :
           /\ columnWidths' = r.attr
           /\ columnIndexMap' = r.map
           /\ phase' = IF r.changed THEN "fixing" ELSE "idle"
           /\ touched' = IF r.changed THEN touched ELSE FALSE
           /\ batch' = IF r.changed THEN batch ELSE << >>
           /\ lastPass' = [ran |-> r.ran, wrote |-> r.wrote, changed |-> r.changed,
                           inserted |-> r.inserted, pre |-> columnWidths,
                           normalized |-> r.normalized, map |-> columnIndexMap,
                           minW |-> getColumnMinWidthAsPercentage(tableWidthPx),
                           prevRan |-> passNo > 0 /\ lastPass.ran,
                           prevInserted |-> IF passNo > 0 THEN lastPass.inserted ELSE 0]
    /\ passNo' = IF passNo < PassCap THEN passNo + 1 ELSE passNo
    /\ UNCHANGED << rows, tableWidthPx, nextId, edits, batchStart >>
    /\ UNCHANGED rcOnly

NextPostFixer == InsertColumns \/ RemoveColumns \/ EndBatch \/ PostFixer

SpecPostFixer == InitPostFixer /\ [][NextPostFixer]_vars

\* ------------------------------------------------------------- controller
\* Command.isEnabled of resizeTableWidth and resizeColumnWidths: executable
\* when the editor is not read-only and the feature is enabled.
CommandIsEnabled(readOnly, enabled) == ~readOnly /\ enabled

\* the callback of this.bind( '_isResizingAllowed' ).to( ... )
BoundIsResizingAllowed(readOnly, enabled) ==
    ~readOnly /\ enabled /\ CommandIsEnabled(readOnly, enabled) /\ CommandIsEnabled(readOnly, enabled)

\* the 'render' listener: the flag is set again after a drop
AfterRender(st) ==
    IF st.draggingState = "afterdragging"
    THEN [allowed |-> TRUE, draggingState |-> "notdragging"]
    ELSE st

\* this._isResizingAllowed = value: a changed value toggles the
\* ck-column-resize_disabled class in a view change, which renders.
SetIsResizingAllowed(st, value) ==
    IF st.allowed = value THEN st ELSE AfterRender([st EXCEPT !.allowed = value])

Flags == [allowed |-> isResizingAllowed, draggingState |-> draggingState]

\* table layout: the width in pixels of the figure given its width style
LayoutTablePx(fig) == IF fig.has THEN RoundDiv(fig.w * parentPx, Hundred) ELSE naturalTablePx

\* column layout: the widths in pixels of the columns given the colgroup
DomColumnPx(colgroup, px, k, j) ==
    IF colgroup.has THEN RoundDiv(colgroup.ws[j] * px, Hundred) ELSE px \div k

RECURSIVE getDomCellOuterWidth(_, _, _, _, _)
getDomCellOuterWidth(colgroup, px, k, column, cellWidth) ==
    IF cellWidth = 0 THEN 0
    ELSE DomColumnPx(colgroup, px, k, column + cellWidth)
         + getDomCellOuterWidth(colgroup, px, k, column, cellWidth - 1)

IsFalsy(x) == x = NaN \/ x = 0

\* _calculateDomColumnWidths: the loop over the table walker
RECURSIVE MeasureSlots(_, _, _, _, _)
MeasureSlots(slots, i, acc, colgroup, px) ==
    IF i > Len(slots) THEN acc
    ELSE LET slot == slots[i]
             domCellWidth == getDomCellOuterWidth(colgroup, px, Len(acc.px), slot.column, slot.cellWidth)
             cur == acc.px[slot.column + 1]
             px1 == IF IsFalsy(cur) \/ domCellWidth < cur
                    THEN [acc.px EXCEPT ![slot.column + 1] = domCellWidth]
                    ELSE acc.px
             map1 == IF slot.cell \in DOMAIN acc.map THEN acc.map
                     ELSE (slot.cell :> slot.column) @@ acc.map
         IN  MeasureSlots(slots, i + 1, [px |-> px1, map |-> map1], colgroup, px)

calculateDomColumnWidths(rs, map, colgroup, px) ==
    MeasureSlots(TableWalker(rs), 1,
                 [px |-> createFilledArray(getColumns(rs), NaN), map |-> map], colgroup, px)

\* a press that inserts no colgroup
insertColgroupElementSkipped(columnWidthsInPx) == NoAttr

\* _insertColgroupElement
insertColgroupElement(columnWidthsInPx) ==
    Attr([i \in 1..Len(columnWidthsInPx) |->
            toPrecision(columnWidthsInPx[i] * 100, sumArray(columnWidthsInPx))], TRUE)

CellWidthOf(rs, cell) ==
    LET slots == TableWalker(rs)
    IN  slots[CHOOSE i \in 1..Len(slots) : slots[i].cell = cell].cellWidth

\* getColumnEdgesIndexes( cell, columnIndexMap ).rightEdge
RightEdgeIndex(rs, map, cell) == map[cell] + CellWidthOf(rs, cell) - 1

\* _getResizingData
getResizingData(target, clientX, columnWidthsInPx, rs, map, hasAlignment, ltr, figurePx, containerPx) ==
    LET leftColumnIndex == RightEdgeIndex(rs, map, target)
        lastColumnIndex == getColumns(rs) - 1
        isRightEdge == leftColumnIndex = lastColumnIndex
    IN  [columnPosition |-> clientX,
         isRightEdge |-> isRightEdge,
         isTableCentered |-> ~hasAlignment,
         isLtrContent |-> ltr,
         viewResizer |-> target,
         leftColumnIndex |-> leftColumnIndex,
         viewFigureParentWidth |-> containerPx,
         viewFigureWidth |-> figurePx,
         tableWidth |-> figurePx,
         leftColumnWidth |-> columnWidthsInPx[leftColumnIndex + 1],
         rightColumnWidth |-> IF isRightEdge THEN NaN ELSE columnWidthsInPx[leftColumnIndex + 2]]

\* _applyResizingAttributesToTable: the width style given to the figure
FigureInitialWidth(data) == Width(toPrecision(data.viewFigureWidth * 100, data.viewFigureParentWidth))

clamp(x, lo, hi) == IF x < lo THEN lo ELSE IF x > hi THEN hi ELSE x
Min2(a, b) == IF a < b THEN a ELSE b
Max2(a, b) == IF a > b THEN a ELSE b

\* a clamped offset that never doubles the displacement
MoveDxNotDoubled(data, clientX) ==
    LET dxLowerBound == COLUMN_MIN_WIDTH_IN_PIXELS - data.leftColumnWidth
        dxUpperBound == IF data.isRightEdge
                        THEN data.viewFigureParentWidth - data.tableWidth
                        ELSE data.rightColumnWidth - COLUMN_MIN_WIDTH_IN_PIXELS
        multiplier == IF data.isLtrContent THEN 1 ELSE 0 - 1
    IN  clamp((clientX - data.columnPosition) * multiplier,
              Min2(dxLowerBound, 0), Max2(dxUpperBound, 0))

\* an offset that is not clamped
MoveDxUnclamped(data, clientX) ==
    LET multiplier == (IF data.isLtrContent THEN 1 ELSE 0 - 1)
                      * (IF data.isRightEdge /\ data.isTableCentered THEN 2 ELSE 1)
    IN  (clientX - data.columnPosition) * multiplier

\* _onMouseMoveHandler: the clamped offset
MoveDx(data, clientX) ==
    LET dxLowerBound == COLUMN_MIN_WIDTH_IN_PIXELS - data.leftColumnWidth
        dxUpperBound == IF data.isRightEdge
                        THEN data.viewFigureParentWidth - data.tableWidth
                        ELSE data.rightColumnWidth - COLUMN_MIN_WIDTH_IN_PIXELS
        multiplier == (IF data.isLtrContent THEN 1 ELSE 0 - 1)
                      * (IF data.isRightEdge /\ data.isTableCentered THEN 2 ELSE 1)
    IN  clamp((clientX - data.columnPosition) * multiplier,
              Min2(dxLowerBound, 0), Max2(dxUpperBound, 0))

\* _onMouseMoveHandler: the view after the writer callback
MoveColgroup(data, colgroup, dx) ==
    LET left == [colgroup EXCEPT !.ws[data.leftColumnIndex + 1] =
                    toPrecision((data.leftColumnWidth + dx) * 100, data.tableWidth)]
    IN  IF data.isRightEdge THEN left
        ELSE [left EXCEPT !.ws[data.leftColumnIndex + 2] =
                    toPrecision((data.rightColumnWidth - dx) * 100, data.tableWidth)]

\* a drag update that writes the col widths whatever the offset is
MoveViewAlways(data, colgroup, dx) == MoveColgroup(data, colgroup, dx)

\* _onMouseMoveHandler: nothing is written when dx === 0
MoveView(data, colgroup, dx) ==
    IF dx = 0 THEN colgroup ELSE MoveColgroup(data, colgroup, dx)

MoveFigure(data, fig, dx) ==
    IF data.isRightEdge
    THEN Width(toPrecision((data.tableWidth + dx) * 100, data.viewFigureParentWidth))
    ELSE fig

\* model.change() of a command: the post-fixers run until none reports a change
RECURSIVE RunPostFixers(_, _, _, _, _)
RunPostFixers(attr, map, rs, px, fuel) ==
    TheOne({ IF r.changed /\ fuel > 0 THEN RunPostFixers(r.attr, r.map, rs, px, fuel - 1)
             ELSE [attr |-> r.attr, map |-> r.map]
             : r \in {PostFixerPass(attr, map, rs, TRUE, px)} })

\* a release that keeps the session data
ClearResizingDataSkipped(data) == data

\* this._resizingData = null
ClearResizingData(data) == NoData

\* a release that leaves the active class on the handle
RemoveActiveClassSkipped(resizers, data) == resizers

\* _onMouseUpHandler: removeClass( 'ck-table-column-resizer__active', viewResizer )
RemoveActiveClass(resizers, data) == resizers \ {data.viewResizer}

\* a commit branch that always executes the columns-only command
CommandToExecuteColumnsOnly(isColumnWidthsAttributeChanged, isTableWidthAttributeChanged, allowed) ==
    IF ~(isColumnWidthsAttributeChanged \/ isTableWidthAttributeChanged) \/ ~allowed THEN "none"
    ELSE "resizeColumnWidths"

\* _onMouseUpHandler: which command the commit branch executes
CommandToExecute(isColumnWidthsAttributeChanged, isTableWidthAttributeChanged, allowed) ==
    IF ~(isColumnWidthsAttributeChanged \/ isTableWidthAttributeChanged) \/ ~allowed THEN "none"
    ELSE IF isTableWidthAttributeChanged THEN "resizeTableWidth"
    ELSE "resizeColumnWidths"

\* _onMouseUpHandler: the revert branch is taken
IsReverted(isColumnWidthsAttributeChanged, isTableWidthAttributeChanged, allowed) ==
    (isColumnWidthsAttributeChanged \/ isTableWidthAttributeChanged) /\ ~allowed

ResizedTables ==
    { << << Cell(1, 1), Cell(2, 1), Cell(3, 1) >> >>,
      << << Cell(1, 2), Cell(2, 1) >>, << Cell(3, 1), Cell(4, 1), Cell(5, 1) >> >> }

\* the observation of a session is dropped by the first event after its end
Forget(obs) == IF isResizingActive THEN obs ELSE NoSession

\* the observation records whether the editor was editable and the feature
\* and the commands were enabled ever since the press
StillEnabled(obs, bound) == [obs EXCEPT !.enabled = @ /\ bound]

\* the press targets: the resizers of the first and of the last cell of the
\* first row (an internal boundary and the table's right edge), and an
\* element that is not a resizer
Targets == {rows[1][1].id, rows[1][Len(rows[1])].id, NotAResizer}
PressX == 100
\* the pointer's displacements: a short one to the left and a long one to the
\* right (an update that moves nothing is what the clamp makes of either)
Deltas == {0 - 30, 300}

InitResize ==
    /\ rows \in ResizedTables
    /\ naturalTablePx = 300
    /\ parentPx = 600
    /\ columnWidths \in IF Len(rows) = 1
                        THEN {NoAttr, Attr(<< Pct(45), Pct(45), Pct(10) >>, TRUE)}
                        ELSE {Attr(<< Pct(45), Pct(45), Pct(10) >>, TRUE)}
    /\ tableWidth \in IF columnWidths.has THEN {Width(Pct(50))} ELSE {NoWidth}
    /\ tableAlignment \in IF columnWidths.has /\ Len(rows) = 1 THEN BOOLEAN ELSE {FALSE}
    /\ isLtrContent \in IF tableAlignment THEN {FALSE}
                        ELSE IF tableWidth.has /\ Len(rows) = 1 THEN BOOLEAN
                        ELSE {TRUE}
    /\ viewColgroup = columnWidths
    /\ viewFigureWidth = tableWidth
    /\ tableWidthPx = LayoutTablePx(viewFigureWidth)
    /\ tableResized = (columnWidths.has \/ tableWidth.has)
    /\ columnIndexMap = RunPostFixers(columnWidths, << >>, rows, tableWidthPx, PassCap).map
    /\ touched = FALSE
    /\ phase = "idle"
    /\ nextId = 8
    /\ edits = 0
    /\ passNo = 0
    /\ lastPass = NoPass
    /\ batch = << >>
    /\ batchStart = NoAttr
    /\ ControllerAtRest
    /\ MenusConstructed
    /\ FilteredViewConstructed
    /\ FixerAtRest

\* editor.isReadOnly, the plugin's isEnabled (and with them the commands'
\* isEnabled) change: the binding recomputes the flag.
SetReadOnly ==
    /\ isReadOnly' = ~isReadOnly
    /\ LET st == SetIsResizingAllowed(Flags, BoundIsResizingAllowed(~isReadOnly, pluginIsEnabled))
       IN  /\ isResizingAllowed' = st.allowed
           /\ draggingState' = st.draggingState
    /\ lastEvent' = [NoEvent EXCEPT !.kind = "other"]
    /\ UNCHANGED << pluginIsEnabled, isResizingActive, resizingData, tableWidth, tableAlignment,
                    viewColgroup, viewFigureWidth, activeResizers, tableResized, isLtrContent,
                    parentPx, naturalTablePx, presses >>
    /\ session' = StillEnabled(Forget(session), BoundIsResizingAllowed(~isReadOnly, pluginIsEnabled))
    /\ UNCHANGED << columnWidths, tableWidthPx, columnIndexMap, pfOnly >>

SetPluginEnabled ==
    /\ pluginIsEnabled' = ~pluginIsEnabled
    /\ LET st == SetIsResizingAllowed(Flags, BoundIsResizingAllowed(isReadOnly, ~pluginIsEnabled))
       IN  /\ isResizingAllowed' = st.allowed
           /\ draggingState' = st.draggingState
    /\ lastEvent' = [NoEvent EXCEPT !.kind = "other"]
    /\ UNCHANGED << isReadOnly, isResizingActive, resizingData, tableWidth, tableAlignment,
                    viewColgroup, viewFigureWidth, activeResizers, tableResized, isLtrContent,
                    parentPx, naturalTablePx, presses >>
    /\ session' = StillEnabled(Forget(session), BoundIsResizingAllowed(isReadOnly, ~pluginIsEnabled))
    /\ UNCHANGED << columnWidths, tableWidthPx, columnIndexMap, pfOnly >>

\* _onMouseDownHandler
MouseDown ==
    \E target \in Targets :
        IF target = NotAResizer
        THEN /\ LET st == SetIsResizingAllowed(Flags, FALSE)
                IN  /\ isResizingAllowed' = st.allowed
                    /\ draggingState' = st.draggingState
             /\ lastEvent' = [NoEvent EXCEPT !.kind = "other"]
             /\ UNCHANGED << isReadOnly, pluginIsEnabled, isResizingActive, resizingData,
                             tableWidth, tableAlignment, viewColgroup, viewFigureWidth,
                             activeResizers, tableResized, isLtrContent, parentPx,
                             naturalTablePx, presses >>
             /\ session' = Forget(session)
             /\ UNCHANGED << columnWidths, tableWidthPx, columnIndexMap, pfOnly >>
        ELSE IF ~isResizingAllowed
        THEN /\ lastEvent' = [NoEvent EXCEPT !.kind = "other"]
             /\ UNCHANGED << isReadOnly, pluginIsEnabled, isResizingActive, isResizingAllowed,
                             resizingData, draggingState, tableWidth, tableAlignment,
                             viewColgroup, viewFigureWidth, activeResizers, tableResized,
                             isLtrContent, parentPx, naturalTablePx, presses >>
             /\ session' = Forget(session)
             /\ UNCHANGED << columnWidths, tableWidthPx, columnIndexMap, pfOnly >>
        ELSE /\ presses < MaxPresses
             /\ \E m \in {calculateDomColumnWidths(rows, columnIndexMap, viewColgroup, tableWidthPx)} :
                \E data \in {getResizingData(target, PressX, m.px, rows, m.map, tableAlignment,
                                              isLtrContent, tableWidthPx, parentPx)} :
                LET colgroup == IF viewColgroup.has THEN viewColgroup
                                ELSE insertColgroupElement(m.px)
                    st == AfterRender(Flags)
                IN  /\ columnIndexMap' = m.map
                    /\ viewColgroup' = colgroup
                    /\ isResizingActive' = TRUE
                    /\ resizingData' = data
                    /\ tableResized' = TRUE
                    /\ activeResizers' = activeResizers \cup {target}
                    /\ viewFigureWidth' = FigureInitialWidth(data)
                    /\ tableWidthPx' = LayoutTablePx(FigureInitialWidth(data))
                    /\ isResizingAllowed' = st.allowed
                    /\ draggingState' = st.draggingState
             /\ presses' = presses + 1
             /\ session' = IF isResizingActive THEN session
                           ELSE [columnWidths |-> columnWidths, tableWidth |-> tableWidth,
                                 viewColgroup |-> viewColgroup, viewFigureWidth |-> viewFigureWidth,
                                 allowedAtPress |-> BoundIsResizingAllowed(isReadOnly, pluginIsEnabled),
                                 moved |-> FALSE,
                                 enabled |-> BoundIsResizingAllowed(isReadOnly, pluginIsEnabled)]
             /\ lastEvent' = [NoEvent EXCEPT !.kind = "press", !.opened = TRUE]
             /\ UNCHANGED << isReadOnly, pluginIsEnabled, tableWidth, tableAlignment,
                             isLtrContent, parentPx, naturalTablePx >>
             /\ UNCHANGED << columnWidths, pfOnly >>

\* _onMouseUpHandler
MouseUpHandler(signal) ==
    IF ~isResizingActive
    THEN /\ LET st == SetIsResizingAllowed(Flags, TRUE)
            IN  /\ isResizingAllowed' = st.allowed
                /\ draggingState' = st.draggingState
         /\ lastEvent' = [NoEvent EXCEPT !.kind = "other"]
         /\ UNCHANGED << isReadOnly, pluginIsEnabled, isResizingActive, resizingData,
                         tableWidth, tableAlignment, viewColgroup, viewFigureWidth,
                         activeResizers, tableResized, isLtrContent, parentPx,
                         naturalTablePx, presses >>
         /\ session' = Forget(session)
         /\ UNCHANGED << columnWidths, tableWidthPx, columnIndexMap, pfOnly >>
    ELSE LET columnWidthsAttributeOld == columnWidths
             columnWidthsAttributeNew == viewColgroup
             isColumnWidthsAttributeChanged == columnWidthsAttributeOld # columnWidthsAttributeNew
             tableWidthAttributeOld == tableWidth
             tableWidthAttributeNew == viewFigureWidth
             isTableWidthAttributeChanged == tableWidthAttributeOld # tableWidthAttributeNew
             command == CommandToExecute(isColumnWidthsAttributeChanged,
                                         isTableWidthAttributeChanged, isResizingAllowed)
             reverted == IsReverted(isColumnWidthsAttributeChanged,
                                    isTableWidthAttributeChanged, isResizingAllowed)
             executes == command # "none" /\ CommandIsEnabled(isReadOnly, pluginIsEnabled)
         IN  \E fixed \in {IF executes
                            THEN RunPostFixers(columnWidthsAttributeNew, columnIndexMap, rows,
                                               tableWidthPx, PassCap)
                            ELSE [attr |-> columnWidths, map |-> columnIndexMap]} :
         LET newTableWidth == IF executes /\ command = "resizeTableWidth"
                              THEN Width(toPrecision(tableWidthAttributeNew.w, PctUnit))
                              ELSE tableWidth
             newColgroup == IF executes THEN fixed.attr
                            ELSE IF ~reverted THEN viewColgroup
                            ELSE IF columnWidthsAttributeOld.has THEN columnWidthsAttributeOld
                            ELSE NoAttr
             newFigure == IF executes THEN newTableWidth
                          ELSE IF ~(reverted /\ isTableWidthAttributeChanged) THEN viewFigureWidth
                          ELSE IF tableWidthAttributeOld.has THEN tableWidthAttributeOld
                          ELSE NoWidth
             st == AfterRender(Flags)
         IN  /\ columnWidths' = IF executes THEN fixed.attr ELSE columnWidths
             /\ columnIndexMap' = IF executes THEN fixed.map ELSE columnIndexMap
             /\ tableWidth' = newTableWidth
             /\ viewColgroup' = newColgroup
             /\ viewFigureWidth' = newFigure
             /\ tableWidthPx' = LayoutTablePx(newFigure)
             /\ tableResized' = IF reverted /\ ~columnWidthsAttributeOld.has /\ ~tableWidthAttributeOld.has
                                THEN FALSE ELSE tableResized
             /\ activeResizers' = RemoveActiveClass(activeResizers, resizingData)
             /\ isResizingActive' = FALSE
             /\ resizingData' = ClearResizingData(resizingData)
             /\ isResizingAllowed' = st.allowed
             /\ draggingState' = st.draggingState
             /\ lastEvent' = [kind |-> "release", opened |-> FALSE, command |-> command,
                              commandIsEnabled |-> CommandIsEnabled(isReadOnly, pluginIsEnabled),
                              mutated |-> executes, ended |-> TRUE,
                              resizer |-> resizingData.viewResizer,
                              allowed |-> isResizingAllowed,
                              isColumnWidthsAttributeChanged |-> isColumnWidthsAttributeChanged,
                              isTableWidthAttributeChanged |-> isTableWidthAttributeChanged,
                              columnWidths |-> IF command = "none" THEN NoAttr
                                               ELSE columnWidthsAttributeNew,
                              displacement |-> 0, dx |-> 0, signal |-> signal]
             /\ UNCHANGED << isReadOnly, pluginIsEnabled, tableAlignment, isLtrContent,
                             parentPx, naturalTablePx, presses >>
             /\ session' = Forget(session)
             /\ UNCHANGED pfOnly

MouseUp == MouseUpHandler("mouseup")

\* a drag update that also writes the column widths to the model
MouseMoveWritingModel ==
    \E d \in Deltas :
        IF ~isResizingActive
        THEN /\ lastEvent' = [NoEvent EXCEPT !.kind = "move"]
             /\ UNCHANGED << isReadOnly, pluginIsEnabled, isResizingActive, isResizingAllowed,
                             resizingData, draggingState, tableWidth, tableAlignment,
                             viewColgroup, viewFigureWidth, activeResizers, tableResized,
                             isLtrContent, parentPx, naturalTablePx, presses >>
             /\ session' = Forget(session)
             /\ UNCHANGED << columnWidths, tableWidthPx, columnIndexMap, pfOnly >>
        ELSE IF ~isResizingAllowed
        THEN MouseUpHandler("mousemove")
        ELSE LET dx == MoveDx(resizingData, PressX + d)
                 st == IF dx = 0 THEN Flags ELSE AfterRender(Flags)
             IN  /\ viewColgroup' = MoveView(resizingData, viewColgroup, dx)
                 /\ viewFigureWidth' = IF dx = 0 THEN viewFigureWidth
                                       ELSE MoveFigure(resizingData, viewFigureWidth, dx)
                 /\ tableWidthPx' = IF dx = 0 THEN tableWidthPx
                                    ELSE LayoutTablePx(MoveFigure(resizingData, viewFigureWidth, dx))
                 /\ isResizingAllowed' = st.allowed
                 /\ draggingState' = st.draggingState
                 /\ session' = [session EXCEPT !.moved = (d # 0)]
                 /\ lastEvent' = [NoEvent EXCEPT !.kind = "move", !.displacement = d, !.dx = dx]
                 /\ UNCHANGED << isReadOnly, pluginIsEnabled, isResizingActive, resizingData,
                                 tableWidth, tableAlignment, activeResizers, tableResized,
                                 isLtrContent, parentPx, naturalTablePx, presses >>
                 /\ columnWidths' = IF dx = 0 THEN columnWidths
                                    ELSE MoveColgroup(resizingData, viewColgroup, dx)
                 /\ UNCHANGED << columnIndexMap, pfOnly >>

\* _onMouseMoveHandler
MouseMove ==
    \E d \in Deltas :
        IF ~isResizingActive
        THEN /\ lastEvent' = [NoEvent EXCEPT !.kind = "move"]
             /\ UNCHANGED << isReadOnly, pluginIsEnabled, isResizingActive, isResizingAllowed,
                             resizingData, draggingState, tableWidth, tableAlignment,
                             viewColgroup, viewFigureWidth, activeResizers, tableResized,
                             isLtrContent, parentPx, naturalTablePx, presses >>
             /\ session' = Forget(session)
             /\ UNCHANGED << columnWidths, tableWidthPx, columnIndexMap, pfOnly >>
        ELSE IF ~isResizingAllowed
        THEN MouseUpHandler("mousemove")
        ELSE LET dx == MoveDx(resizingData, PressX + d)
                 st == IF dx = 0 THEN Flags ELSE AfterRender(Flags)
             IN  /\ viewColgroup' = MoveView(resizingData, viewColgroup, dx)
                 /\ viewFigureWidth' = IF dx = 0 THEN viewFigureWidth
                                       ELSE MoveFigure(resizingData, viewFigureWidth, dx)
                 /\ tableWidthPx' = IF dx = 0 THEN tableWidthPx
                                    ELSE LayoutTablePx(MoveFigure(resizingData, viewFigureWidth, dx))
                 /\ isResizingAllowed' = st.allowed
                 /\ draggingState' = st.draggingState
                 /\ session' = [session EXCEPT !.moved = (d # 0)]
                 /\ lastEvent' = [NoEvent EXCEPT !.kind = "move", !.displacement = d, !.dx = dx]
                 /\ UNCHANGED << isReadOnly, pluginIsEnabled, isResizingActive, resizingData,
                                 tableWidth, tableAlignment, activeResizers, tableResized,
                                 isLtrContent, parentPx, naturalTablePx, presses >>
                 /\ UNCHANGED << columnWidths, columnIndexMap, pfOnly >>

\* a drag-leave that releases whatever the buttons are
DragLeaveIgnoringButtons ==
    \E buttons \in {0, 1} :
        MouseUpHandler(IF buttons = 0 THEN "dragleave" ELSE "dragleave, button pressed")

\* _onDragLeaveHandler
DragLeave ==
    \E buttons \in {0, 1} :
        IF buttons = 0 THEN MouseUpHandler("dragleave")
        ELSE /\ lastEvent' = [NoEvent EXCEPT !.kind = "other"]
             /\ UNCHANGED << isReadOnly, pluginIsEnabled, isResizingActive, isResizingAllowed,
                             resizingData, draggingState, tableWidth, tableAlignment,
                             viewColgroup, viewFigureWidth, activeResizers, tableResized,
                             isLtrContent, parentPx, naturalTablePx, presses >>
             /\ session' = Forget(session)
             /\ UNCHANGED << columnWidths, tableWidthPx, columnIndexMap, pfOnly >>

\* a 'drop' listener that also clears the tracker
DropClearingTracker ==
    /\ draggingState' = "afterdragging"
    /\ lastEvent' = [NoEvent EXCEPT !.kind = "other"]
    /\ UNCHANGED << isReadOnly, pluginIsEnabled, isResizingActive, isResizingAllowed,
                    resizingData, tableWidth, tableAlignment, viewColgroup, viewFigureWidth,
                    activeResizers, tableResized, isLtrContent, parentPx, naturalTablePx,
                    presses >>
    /\ session' = Forget(session)
    /\ columnIndexMap' = << >>
    /\ UNCHANGED << columnWidths, tableWidthPx, pfOnly >>

\* the 'drop' and 'dragstart' listeners
Drop ==
    /\ draggingState' = "afterdragging"
    /\ lastEvent' = [NoEvent EXCEPT !.kind = "other"]
    /\ UNCHANGED << isReadOnly, pluginIsEnabled, isResizingActive, isResizingAllowed,
                    resizingData, tableWidth, tableAlignment, viewColgroup, viewFigureWidth,
                    activeResizers, tableResized, isLtrContent, parentPx, naturalTablePx,
                    presses >>
    /\ session' = Forget(session)
    /\ UNCHANGED << columnWidths, tableWidthPx, columnIndexMap, pfOnly >>

DragStart ==
    /\ draggingState' = "dragginactive"
    /\ lastEvent' = [NoEvent EXCEPT !.kind = "other"]
    /\ UNCHANGED << isReadOnly, pluginIsEnabled, isResizingActive, isResizingAllowed,
                    resizingData, tableWidth, tableAlignment, viewColgroup, viewFigureWidth,
                    activeResizers, tableResized, isLtrContent, parentPx, naturalTablePx,
                    presses >>
    /\ session' = Forget(session)
    /\ UNCHANGED << columnWidths, tableWidthPx, columnIndexMap, pfOnly >>

\* the 'render' listener of _registerResizerInserter
Render ==
    /\ LET st == AfterRender(Flags)
       IN  /\ isResizingAllowed' = st.allowed
           /\ draggingState' = st.draggingState
    /\ lastEvent' = [NoEvent EXCEPT !.kind = "other"]
    /\ UNCHANGED << isReadOnly, pluginIsEnabled, isResizingActive, resizingData,
                    tableWidth, tableAlignment, viewColgroup, viewFigureWidth,
                    activeResizers, tableResized, isLtrContent, parentPx, naturalTablePx,
                    presses >>
    /\ session' = Forget(session)
    /\ UNCHANGED << columnWidths, tableWidthPx, columnIndexMap, pfOnly >>

NextResize ==
    \/ SetReadOnly \/ SetPluginEnabled
    \/ MouseDown \/ MouseMove \/ MouseUp \/ DragLeave
    \/ Drop \/ DragStart \/ Render

SpecResize == InitResize /\ [][NextResize]_vars

\* ------------------------------------------------------------ measurement
\* The tables that are measured: a column whose first cell is a plain cell
\* and whose later cell spans two columns, and the reverse.
MeasuredTables ==
    { << << Cell(1, 1), Cell(2, 1), Cell(3, 1) >>, << Cell(4, 2), Cell(5, 1) >> >>,
      << << Cell(1, 2), Cell(2, 1) >>, << Cell(3, 1), Cell(4, 1), Cell(5, 1) >> >> }

\* the widths of the col elements at the press, a column of no width included
MeasuredColWidths == {0, Pct(25), Pct(50), Pct(100)}

InitMeasure ==
    /\ rows \in MeasuredTables
    /\ viewColgroup \in { Attr(ws, TRUE) : ws \in [1..3 -> MeasuredColWidths] }
    /\ viewFigureWidth = Width(Pct(50))
    /\ tableWidthPx = 300
    /\ parentPx = 600
    /\ naturalTablePx = 300
    /\ columnWidths = viewColgroup
    /\ tableWidth = viewFigureWidth
    /\ tableAlignment = FALSE
    /\ tableResized = TRUE
    /\ isLtrContent = TRUE
    /\ columnIndexMap = << >>
    /\ touched = FALSE
    /\ phase = "idle"
    /\ nextId = 8
    /\ edits = 0
    /\ passNo = 0
    /\ lastPass = NoPass
    /\ batch = << >>
    /\ batchStart = NoAttr
    /\ ControllerAtRest
    /\ MenusConstructed
    /\ FilteredViewConstructed
    /\ FixerAtRest

\* _calculateDomColumnWidths( modelTable, this._columnIndexMap, ... )
Measure ==
    /\ measuredWidthsInPx = << >>
    /\ \E m \in {calculateDomColumnWidths(rows, columnIndexMap, viewColgroup, tableWidthPx)} :
          /\ measuredWidthsInPx' = m.px
          /\ columnIndexMap' = m.map
    /\ UNCHANGED << rows, columnWidths, touched, tableWidthPx, phase, nextId, edits,
                    passNo, lastPass, batch, batchStart, rcVars, fixerVars,
                    menuVars, filteredVars >>

NextMeasure == Measure

SpecMeasure == InitMeasure /\ [][NextMeasure]_vars

\* ----------------------------------------------------------- colgroup fixer
\* the colgroup that the downcast of the table creates from columnWidths
DowncastColgroup(attr) == IF attr.has THEN Attr(ParseColumnWidths(attr), TRUE) ELSE NoAttr

\* a listener that reconverts whether or not a colgroup exists
NeedsReconversionWithColgroup(modelSelected, attr, viewSelected, colgroup) ==
    modelSelected /\ attr.has /\ viewSelected

\* the condition under which the 'layoutChanged' listener reconverts
NeedsReconversion(modelSelected, attr, viewSelected, colgroup) ==
    modelSelected /\ attr.has /\ viewSelected /\ ~colgroup.has

InitColgroupFixer ==
    /\ rows \in InitTables
    /\ columnWidths \in {NoAttr} \cup InitWidths(getColumns(rows))
    /\ viewColgroup \in {NoAttr, DowncastColgroup(columnWidths)}
    /\ modelTableSelected \in BOOLEAN
    /\ viewTableSelected \in BOOLEAN
    /\ layoutChanges = 0
    /\ reconversions = 0
    /\ tableWidthPx \in InitTableWidths
    /\ columnIndexMap = << >>
    /\ touched = FALSE
    /\ phase = "idle"
    /\ nextId = 8
    /\ edits = 0
    /\ passNo = 0
    /\ lastPass = NoPass
    /\ batch = << >>
    /\ batchStart = NoAttr
    /\ ControllerAtRest
    /\ MenusConstructed
    /\ FilteredViewConstructed
    /\ tableWidth = NoWidth
    /\ tableAlignment = FALSE
    /\ viewFigureWidth = NoWidth
    /\ tableResized = viewColgroup.has
    /\ isLtrContent = TRUE
    /\ parentPx = 0
    /\ naturalTablePx = 0

\* the listener of 'layoutChanged' registered by _registerColgroupFixer
LayoutChanged ==
    /\ layoutChanges < MaxLayoutChanges
    /\ layoutChanges' = layoutChanges + 1
    /\ IF NeedsReconversion(modelTableSelected, columnWidths, viewTableSelected, viewColgroup)
       THEN /\ viewColgroup' = DowncastColgroup(columnWidths)
            /\ tableResized' = TRUE
            /\ reconversions' = reconversions + 1
       ELSE UNCHANGED << viewColgroup, tableResized, reconversions >>
    /\ UNCHANGED << modelTableSelected, viewTableSelected, pfVars, measuredWidthsInPx,
                    isReadOnly, pluginIsEnabled, isResizingActive, isResizingAllowed,
                    resizingData, draggingState, tableWidth, tableAlignment, viewFigureWidth,
                    activeResizers, isLtrContent, parentPx, naturalTablePx, presses, session,
                    lastEvent, menuVars, filteredVars >>

\* the selection moves into or out of the table
ChangeSelection ==
    /\ \E inModel \in BOOLEAN, inView \in BOOLEAN :
          /\ << inModel, inView >> # << modelTableSelected, viewTableSelected >>
          /\ modelTableSelected' = inModel
          /\ viewTableSelected' = inView
    /\ UNCHANGED << layoutChanges, reconversions, pfVars, rcVars, measuredWidthsInPx,
                    menuVars, filteredVars >>

NextColgroupFixer == LayoutChanged \/ ChangeSelection

SpecColgroupFixer == InitColgroupFixer /\ [][NextColgroupFixer]_vars

\* -------------------------------------------------- dropdown menu: actions
Registry ==
    [menus |-> menus, parentMenuView |-> parentMenuView,
     delegations |-> delegations, executeListeners |-> executeListeners]

\* the views that exist: the top-level list items, the registered menus and
\* the list items and components of the menus whose items were created
CreatedViews ==
    Range(menus)
        \cup {ListItemOf[TopLevelItems[i]] : i \in 1..Len(TopLevelItems)}
        \cup UNION {{MenuItems[m][i] : i \in 1..Len(MenuItems[m])} : m \in built}
        \cup UNION {{ListItemOf[MenuItems[m][i]] : i \in 1..Len(MenuItems[m])} : m \in built}

\* a timer callback that closes the root list whatever the menus are
AnyMenuOpenIgnored(registered, open) == FALSE

\* Array.from( this.menus ).some( menuView => menuView.isOpen )
AnyMenuOpen(registered, open) == \E i \in 1..Len(registered) : open[registered[i]]

\* a close() that leaves the nested menus alone
CloseTopLevelOnly(registered, open) ==
    [m \in DOMAIN open |-> IF m \in Range(registered) /\ m \in Range(TopLevelItems)
                           THEN FALSE ELSE open[m]]

\* close(): menuView.isOpen = false for every menu of this.menus
Close(registered, open) ==
    [m \in DOMAIN open |-> IF m \in Range(registered) THEN FALSE ELSE open[m]]

\* a listener that starts no timer when a menu closes
IsOpenUpdaterWithoutTimer(reached, value) ==
    IF reached
    THEN /\ isOpen' = (IF value THEN TRUE ELSE isOpen)
         /\ closeTimeout' = FALSE
    ELSE UNCHANGED << isOpen, closeTimeout >>

\* the listener of 'menu:change:isOpen' of _setupIsOpenUpdater, run once for
\* every time the event reaches the root list
IsOpenUpdater(reached, value) ==
    IF reached
    THEN /\ isOpen' = (IF value THEN TRUE ELSE isOpen)
         /\ closeTimeout' = ~value
    ELSE UNCHANGED << isOpen, closeTimeout >>

\* menuView.isOpen = value, by a behavior or by the user of the menu; the
\* first change of a menu made from a definition creates its items
SetMenuIsOpen ==
    \E menuView \in Range(menus), value \in BOOLEAN :
        /\ Len(task) < MaxTaskEvents
        /\ menuIsOpen[menuView] # value
        /\ menuIsOpen' = [menuIsOpen EXCEPT ![menuView] = value]
        /\ \E st \in {IF menuView \in MenuDefinitions \ built
                      THEN createMenuItems(Registry, menuView, 1) ELSE Registry} :
              /\ menus' = st.menus
              /\ parentMenuView' = st.parentMenuView
              /\ delegations' = st.delegations
              /\ executeListeners' = st.executeListeners
              /\ \E fired \in {Fired(st.delegations, menuView, "change:isOpen")} :
                    /\ IsOpenUpdater(\E f \in fired : f.emitter = Root /\ f.name = "menu:change:isOpen",
                                     value)
                    /\ lastMenuEvent' = [kind |-> "change:isOpen", source |-> menuView,
                                         fired |-> fired, task |-> << >>, closed |-> {}]
        /\ built' = IF menuView \in MenuDefinitions THEN built \cup {menuView} ELSE built
        /\ task' = Append(task, [menu |-> menuView, isOpen |-> value])
        /\ UNCHANGED << pfVars, rcVars, measuredWidthsInPx, fixerVars, filteredVars >>

\* what close() does to the state: every menu that was open fires
\* 'change:isOpen' with false
CloseAll(closed) ==
    /\ menuIsOpen' = closed
    /\ IsOpenUpdater(\E m \in Range(menus) :
                         /\ closed[m] # menuIsOpen[m]
                         /\ \E f \in Fired(delegations, m, "change:isOpen") :
                               f.emitter = Root /\ f.name = "menu:change:isOpen",
                     FALSE)
    /\ UNCHANGED << menus, parentMenuView, delegations, executeListeners, built >>

\* close(), called by a behavior of the root list
CloseMenus ==
    /\ Len(task) < MaxTaskEvents
    /\ CloseAll(Close(menus, menuIsOpen))
    /\ task' = Append(task, [menu |-> Root, isOpen |-> FALSE])
    /\ lastMenuEvent' = [kind |-> "close", source |-> Root, fired |-> {}, task |-> << >>,
                         closed |-> {m \in Range(menus) : menuIsOpen[m]}]
    /\ UNCHANGED << pfVars, rcVars, measuredWidthsInPx, fixerVars, filteredVars >>

\* a component of a menu fires 'execute'
Execute ==
    \E component \in CreatedViews \cap MenuViewItems :
        /\ Len(task) < MaxTaskEvents
        /\ IF component \in executeListeners
           THEN CloseAll(Close(menus, menuIsOpen))
           ELSE UNCHANGED << menuIsOpen, isOpen, closeTimeout, menus, parentMenuView,
                             delegations, executeListeners, built >>
        /\ task' = Append(task, [menu |-> component, isOpen |-> FALSE])
        /\ lastMenuEvent' = [kind |-> "execute", source |-> component,
                             fired |-> Fired(delegations, component, "execute"), task |-> << >>,
                             closed |-> IF component \in executeListeners
                                        THEN {m \in Range(menus) : menuIsOpen[m]} ELSE {}]
        /\ UNCHANGED << pfVars, rcVars, measuredWidthsInPx, fixerVars, filteredVars >>

\* the DOM fires mouseenter on the element of a list item, of the button of
\* a menu or of a component, and the view fires 'mouseenter'
MouseEnter ==
    \E view \in CreatedViews :
        /\ lastMenuEvent' = [kind |-> "mouseenter", source |-> view,
                             fired |-> Fired(delegations, view, "mouseenter"), task |-> << >>,
                             closed |-> {}]
        /\ UNCHANGED << menus, menuIsOpen, parentMenuView, built, delegations,
                        executeListeners, isOpen, closeTimeout, task,
                        pfVars, rcVars, measuredWidthsInPx, fixerVars, filteredVars >>

\* the current task ends and the callback of setTimeout( ..., 0 ) runs
Timeout ==
    /\ closeTimeout
    /\ closeTimeout' = FALSE
    /\ isOpen' = AnyMenuOpen(menus, menuIsOpen)
    /\ task' = << >>
    /\ lastMenuEvent' = [kind |-> "timeout", source |-> Root, fired |-> {}, task |-> task,
                         closed |-> {}]
    /\ UNCHANGED << menus, menuIsOpen, parentMenuView, built, delegations, executeListeners,
                    pfVars, rcVars, measuredWidthsInPx, fixerVars, filteredVars >>

\* the current task ends and another one begins before any timer runs
EndTask ==
    /\ task # << >>
    /\ task' = << >>
    /\ UNCHANGED << menus, menuIsOpen, parentMenuView, built, delegations, executeListeners,
                    isOpen, closeTimeout, lastMenuEvent,
                    pfVars, rcVars, measuredWidthsInPx, fixerVars, filteredVars >>

\* a table that nothing resizes
TableAtRest ==
    /\ rows = << << Cell(1, 1) >> >>
    /\ columnWidths = NoAttr
    /\ touched = FALSE
    /\ tableWidthPx = 300
    /\ columnIndexMap = << >>
    /\ phase = "idle"
    /\ nextId = 2
    /\ edits = 0
    /\ passNo = 0
    /\ lastPass = NoPass
    /\ batch = << >>
    /\ batchStart = NoAttr
    /\ ControllerAtRest
    /\ FixerAtRest
    /\ tableWidth = NoWidth
    /\ tableAlignment = FALSE
    /\ viewColgroup = NoAttr
    /\ viewFigureWidth = NoWidth
    /\ tableResized = FALSE
    /\ isLtrContent = TRUE
    /\ parentPx = 0
    /\ naturalTablePx = 0

InitMenu ==
    /\ MenusConstructed
    /\ FilteredViewConstructed
    /\ TableAtRest

NextMenu == SetMenuIsOpen \/ CloseMenus \/ Execute \/ MouseEnter \/ Timeout \/ EndTask

SpecMenu == InitMenu /\ [][NextMenu]_vars

\* the events that open and close menus, and the timer: the callback of a
\* pending timer runs unless the timer is cleared
NextMenuOpenClose == SetMenuIsOpen \/ CloseMenus \/ Execute \/ Timeout \/ EndTask

SpecMenuFair == InitMenu /\ [][NextMenuOpenClose]_vars /\ WF_vars(Timeout)

\* -------------------------------------------------- filtered view: actions
\* an element that keeps its children
ClearElementSkipped(children) == children

\* element.innerHTML = ''
ClearElement(children) == << >>

\* filter( regExp ); filterDropdownMenuTreeByRegExp() counts the items of the
\* tree and those that match
Filter ==
    \E totalItemsCount \in 0..MaxItems :
      \E resultsCount \in 0..totalItemsCount :
        /\ filterCalls < MaxFilterCalls
        /\ filterCalls' = filterCalls + 1
        /\ lastFilter' = [resultsCount |-> resultsCount, totalItemsCount |-> totalItemsCount]
        /\ IF resultsCount # totalItemsCount
           THEN /\ foundListView' = FoundListChild(filterCalls + 1)
                /\ element' = Append(ClearElement(element), FoundListChild(filterCalls + 1))
                /\ UNCHANGED << menuViewIsRendered, menuViewRenders >>
           ELSE /\ menuViewIsRendered' = TRUE
                /\ menuViewRenders' = IF menuViewIsRendered THEN menuViewRenders
                                      ELSE menuViewRenders + 1
                /\ element' = Append(ClearElement(element), MenuViewChild)
                /\ UNCHANGED foundListView
        /\ UNCHANGED << pfVars, rcVars, measuredWidthsInPx, fixerVars, menuVars >>

InitFiltered ==
    /\ FilteredViewConstructed
    /\ MenusConstructed
    /\ TableAtRest

NextFiltered == Filter

SpecFiltered == InitFiltered /\ [][NextFiltered]_vars

\* ------------------------------------------------------------- properties
AfterPass == passNo >= 1 /\ lastPass.ran /\ phase # "editing"

SingleEdit(kind) == passNo = 1 /\ lastPass.ran /\ Len(batch) = 1 /\ batch[1].kind = kind

\* C1 (as stated): after any post-fixer pass that processes a table carrying
\* columnWidths, the percentages of the attribute sum to 100.
C1_SumIs100AfterAnyPass == AfterPass => sumArray(columnWidths.ws) = Hundred

\* C1 (amended): after a pass over a table carrying columnWidths the
\* percentages sum to 100 plus the minimum width times the number of entries
\* the pass inserted, so to 100 after every pass that inserted none (a pass
\* that detects a deletion included), and to 100 when the post-fixer loop has
\* ended with a pass that reports no change.
C1_SumAfterPass ==
    /\ AfterPass => sumArray(columnWidths.ws) = Hundred + lastPass.inserted * lastPass.minW
    /\ (phase = "idle" /\ columnWidths.has) => sumArray(columnWidths.ws) = Hundred

C1_Witness ==
    /\ AfterPass /\ lastPass.wrote /\ lastPass.inserted = 0
    /\ Len(columnWidths.ws) < Len(lastPass.pre.ws)

\* C2: after a post-fixer pass over a changed table the columnWidths
\* attribute has as many entries as the table has columns, whatever
\* insertions and deletions the batch contained.
C2_LengthIsColumnCount == AfterPass => Len(columnWidths.ws) = getColumns(rows)

C2_Witness ==
    /\ AfterPass /\ passNo = 1 /\ Len(batch) = 2
    /\ batch[1].kind # batch[2].kind
    /\ Len(columnWidths.ws) # Len(lastPass.pre.ws)

\* the widths with the n entries at 0-based positions at .. at+n-1 left out
WithoutRange(ws, at, n) == SubSeq(ws, 1, at) \o SubSeq(ws, at + n + 1, Len(ws))

\* C3: when N columns are inserted into a table whose columnWidths has K
\* entries, the post-fixer yields K+N entries, the N entries at the inserted
\* column positions equal the minimum column width percentage and the K
\* original values keep their values and order.
C3_InsertedColumnsGetMinWidth ==
    SingleEdit("insert") =>
        LET at == batch[1].at
            n  == batch[1].n
            ws == columnWidths.ws
        IN  /\ Len(ws) = Len(batchStart.ws) + n
            /\ \A i \in (at + 1)..(at + n) : ws[i] = lastPass.minW
            /\ WithoutRange(ws, at, n) = batchStart.ws

\* the widths after the column at 0-based index at gave its width to its
\* left neighbour, or to its right neighbour when at is 0
Donated(ws, at) ==
    LET rest == WithoutRange(ws, at, 1)
        to   == IF at > 0 THEN at ELSE 1
    IN  [rest EXCEPT ![to] = @ + ws[at + 1]]

\* C4: when a column of width W is deleted, the post-fixer removes exactly
\* that column's entry and adds W to the entry of its left neighbour (of its
\* former right neighbour for column 0); the sum of the widths is unchanged.
C4_DeletedWidthIsDonated ==
    (SingleEdit("remove") /\ batch[1].n = 1) =>
        /\ columnWidths.ws = Donated(batchStart.ws, batch[1].at)
        /\ sumArray(columnWidths.ws) = sumArray(batchStart.ws)

\* C5 (as stated): a post-fixer run directly after another pass, with no
\* edit in between, writes no columnWidths attribute.
C5_SecondRunWritesNothing == (AfterPass /\ passNo >= 2) => ~lastPass.wrote

\* C5 (amended): a post-fixer run directly after a pass that inserted no
\* column width writes no columnWidths attribute; after a pass that inserted
\* column widths the next run writes the renormalised widths, and the run
\* after that writes nothing.
C5_RunAfterSettledPassWritesNothing ==
    /\ (AfterPass /\ passNo >= 2 /\ lastPass.prevInserted = 0) => ~lastPass.wrote
    /\ (AfterPass /\ passNo >= 3) => ~lastPass.wrote

C5_Witness ==
    /\ AfterPass /\ passNo = 2 /\ lastPass.prevRan /\ lastPass.prevInserted = 0
    /\ ~lastPass.wrote
    /\ batchStart.has /\ Len(columnWidths.ws) < Len(batchStart.ws)

\* C6: re-running the post-fixer while it reports a change, with no other
\* edit in between, reaches a pass that reports no change: the post-fixer is
\* always ready to run while the loop is open, and the third pass after a
\* batch at the latest reports no change.
C6_PostFixerConverges == (phase = "fixing") => passNo < 3

C6_Witness == phase = "idle" /\ passNo >= 3 /\ lastPass.ran /\ ~lastPass.changed

\* a session has just been ended by the release handler
SessionEnded == lastEvent.kind = "release" /\ lastEvent.ended

\* C7: a press on a resize handle followed by a release with zero net
\* pointer movement executes no resize command and leaves the model's
\* tableWidth and columnWidths as they were before the press, whether or not
\* the table carried them.
C7_ZeroMovementMutatesNothing ==
    (SessionEnded /\ ~session.moved) =>
        /\ lastEvent.command = "none"
        /\ columnWidths = session.columnWidths
        /\ tableWidth = session.tableWidth

\* C8: when resizing becomes disallowed while a session is open, after the
\* session ends the model's tableWidth and columnWidths are unchanged and the
\* view's column widths and figure width equal their pre-session values.
C8_DisallowedSessionIsReverted ==
    (SessionEnded /\ session.allowedAtPress
        /\ ~BoundIsResizingAllowed(isReadOnly, pluginIsEnabled)) =>
        /\ columnWidths = session.columnWidths
        /\ tableWidth = session.tableWidth
        /\ viewColgroup = session.viewColgroup
        /\ viewFigureWidth = session.viewFigureWidth

\* C9: a press opens a session only if its target is a resize handle and, at
\* that moment, the editor is not read-only, the feature is enabled and both
\* resize commands are enabled.
C9_PressOpensOnlyIfAllowed ==
    (lastEvent.kind = "press" /\ lastEvent.opened) =>
        /\ resizingData.viewResizer \in CellIds(rows)
        /\ BoundIsResizingAllowed(isReadOnly, pluginIsEnabled)

\* C10: in every state in which the editor is read-only or the feature is
\* disabled, a release invokes neither resizeTableWidth nor
\* resizeColumnWidths and the document is not mutated.
C10_NoCommandWhileNotExecutable ==
    (lastEvent.kind = "release" /\ ~CommandIsEnabled(isReadOnly, pluginIsEnabled)) =>
        /\ lastEvent.command = "none"
        /\ ~lastEvent.mutated

\* C11: while a session is open, a further press on a resize handle opens no
\* second session and leaves the stored session data as it was.
C11_PressDuringSessionIsIgnored ==
    [][(isResizingActive /\ lastEvent'.kind = "press" /\ presses' # presses) =>
          /\ resizingData' = resizingData
          /\ activeResizers' = activeResizers
          /\ viewFigureWidth' = viewFigureWidth]_vars

\* C12: every release that arrives while a session is open ends with the
\* controller idle: the active class is removed from the session's handle,
\* the resizing-active flag is false and the session data is null, whether
\* the release committed, reverted or found nothing changed.
C12_ReleaseEndsIdle ==
    SessionEnded =>
        /\ ~isResizingActive
        /\ resizingData = NoData
        /\ lastEvent.resizer \notin activeResizers

C12_Witness == SessionEnded /\ lastEvent.mutated /\ lastEvent.resizer \in CellIds(rows)

EndedOnInternalBoundary ==
    /\ SessionEnded
    /\ lastEvent.resizer \in DOMAIN columnIndexMap
    /\ RightEdgeIndex(rows, columnIndexMap, lastEvent.resizer) < getColumns(rows) - 1

\* C14: a press-drag-release on an internal column boundary never changes
\* the model's tableWidth: no resizeTableWidth is executed for such a session.
C14_InternalBoundaryKeepsTableWidth ==
    EndedOnInternalBoundary =>
        /\ lastEvent.command # "resizeTableWidth"
        /\ tableWidth = session.tableWidth

\* the last event was a drag update of the open session
AfterDrag == lastEvent.kind = "move" /\ isResizingActive

\* the handle of the open session sits on the table's right edge
OnRightEdge ==
    RightEdgeIndex(rows, columnIndexMap, resizingData.viewResizer) = getColumns(rows) - 1

\* the pointer displacement of the last drag update times the multiplier the
\* statement gives: doubled on the right edge of a table without
\* tableAlignment, negated for right-to-left content
ScaledDisplacement ==
    lastEvent.displacement
        * (IF OnRightEdge /\ ~tableAlignment THEN 2 ELSE 1)
        * (IF isLtrContent THEN 1 ELSE 0 - 1)

\* the scaled displacement lies within the clamp bounds of the session
WithinClamp ==
    /\ ScaledDisplacement >= Min2(COLUMN_MIN_WIDTH_IN_PIXELS - resizingData.leftColumnWidth, 0)
    /\ ScaledDisplacement <= Max2(IF OnRightEdge
                                  THEN resizingData.viewFigureParentWidth - resizingData.tableWidth
                                  ELSE resizingData.rightColumnWidth - COLUMN_MIN_WIDTH_IN_PIXELS, 0)

\* C15: within the clamp bounds the applied delta is the pointer's
\* displacement from the press anchor, doubled on the right edge of a centered
\* table and not otherwise, negated for right-to-left content; on the right
\* edge the figure's width becomes (tableWidth + delta) as a percentage of
\* the container's width.
C15_DeltaIsScaledDisplacement ==
    (AfterDrag /\ WithinClamp) =>
        /\ lastEvent.dx = ScaledDisplacement
        /\ (OnRightEdge /\ lastEvent.dx # 0) =>
              viewFigureWidth = Width(toPrecision((resizingData.tableWidth + lastEvent.dx) * 100,
                                                  parentPx))

C15_Witness ==
    /\ AfterDrag /\ WithinClamp /\ OnRightEdge /\ ~tableAlignment /\ ~isLtrContent
    /\ lastEvent.displacement # 0
    /\ lastEvent.dx = 0 - 2 * lastEvent.displacement

\* C16: from the press until the release handler runs, for any number of
\* drag updates, the model's tableWidth and columnWidths are unchanged and
\* no command is executed.
C16_PressAndDragLeaveModelAlone ==
    isResizingActive =>
        /\ columnWidths = session.columnWidths
        /\ tableWidth = session.tableWidth
        /\ lastEvent.command = "none"
        /\ ~lastEvent.mutated

C16_Witness ==
    /\ AfterDrag /\ lastEvent.dx # 0
    /\ viewColgroup # session.viewColgroup
    /\ columnWidths = session.columnWidths

SumsTo100(ws) ==
    /\ sumArray(ws) >= Hundred - 3 * Len(ws)
    /\ sumArray(ws) =< Hundred + 3 * Len(ws)

\* C18: after every drag update, on the outer edge and on an internal
\* boundary, the percentages of the col elements of the view colgroup sum to
\* 100, and an outer-edge update writes the figure's width as a percentage of
\* its container.
C18_ColgroupSumsTo100AfterDrag ==
    (AfterDrag /\ lastEvent.dx # 0) =>
        /\ SumsTo100(viewColgroup.ws)
        /\ resizingData.isRightEdge =>
              viewFigureWidth = Width(toPrecision((resizingData.tableWidth + lastEvent.dx) * 100,
                                                  resizingData.viewFigureParentWidth))

SessionCloses == isResizingActive /\ ~isResizingActive'

\* C19: an open session is closed only by a pointer-up or by a drag-leave
\* whose buttons value is 0; no other event, a pointer-move in particular,
\* closes it.
C19_OnlyReleaseSignalsClose ==
    [][SessionCloses => lastEvent'.signal \in {"mouseup", "dragleave"}]_vars

\* C19 (amended): an open session is closed only by a pointer-up, by a
\* drag-leave whose buttons value is 0, or by a pointer-move that finds
\* resizing no longer allowed; a pointer-move while resizing is allowed and a
\* drag-leave with a button pressed do not close it.
C19_OnlyReleaseOrDisallowedMoveCloses ==
    [][SessionCloses =>
          /\ lastEvent'.kind = "release"
          /\ \/ lastEvent'.signal \in {"mouseup", "dragleave"}
             \/ lastEvent'.signal = "mousemove" /\ ~isResizingAllowed]_vars

C19_Witness ==
    SessionEnded /\ lastEvent.signal = "mousemove" /\ ~lastEvent.allowed

\* C20: the cell-to-column-index tracker is changed only by a post-fixer
\* pass and by the press-time measurement; no entry is ever removed; the
\* measurement only adds entries for untracked cells and overwrites none;
\* drag, release, drag-leave, drop and render leave the tracker unchanged.
C20_TrackerChangesOnlyInPassOrMeasurement ==
    [][/\ DOMAIN columnIndexMap \subseteq DOMAIN columnIndexMap'
       /\ columnIndexMap' # columnIndexMap =>
             \/ phase = "fixing"
             \/ /\ lastEvent'.kind = "press"
                /\ \A c \in DOMAIN columnIndexMap : columnIndexMap'[c] = columnIndexMap[c]]_vars

C20_Witness ==
    /\ lastEvent.kind = "press" /\ presses = 1
    /\ ~columnWidths.has
    /\ DOMAIN columnIndexMap = CellIds(rows)

\* a table without columnWidths is untracked until its first press
UntrackedBeforeFirstPress == (presses = 0 /\ ~columnWidths.has) => columnIndexMap = << >>

\* the cells of the table that the tracker held before the last pass are
\* still at the column it held them at
TrackedUnmoved ==
    \A i \in 1..Len(TableWalker(rows)) :
        LET slot == TableWalker(rows)[i]
        IN  slot.cell \in DOMAIN lastPass.map => lastPass.map[slot.cell] = slot.column

SomeUntracked ==
    \E i \in 1..Len(TableWalker(rows)) : TableWalker(rows)[i].cell \notin DOMAIN lastPass.map

\* C23: after a post-fixer pass over a table every cell of the table is
\* tracked at its current column index, and cells that were untracked before
\* the pass cause no splice of the width sequence: with no tracked cell
\* moved, the widths are the normalised ones but for the handling of the
\* table end.
C23_EveryCellTrackedAtItsColumn ==
    AfterPass =>
        /\ \A i \in 1..Len(TableWalker(rows)) :
              LET slot == TableWalker(rows)[i]
              IN  /\ slot.cell \in DOMAIN columnIndexMap
                  /\ columnIndexMap[slot.cell] = slot.column
        /\ TrackedUnmoved =>
              columnWidths.ws =
                 HandleColumnDeletionAtEnd(
                    HandleColumnInsertionAtEnd(lastPass.normalized, getColumns(rows), lastPass.minW),
                    getColumns(rows))

C23_Witness ==
    /\ AfterPass /\ TrackedUnmoved /\ SomeUntracked
    /\ DOMAIN lastPass.map # {}
    /\ Len(columnWidths.ws) > Len(lastPass.normalized)

\* C24: a drag event whose clamped delta is zero writes nothing to the view
\* and leaves the session data as it is, and a drag event that arrives while
\* no session is open changes nothing.
C24_ZeroDeltaWritesNothing ==
    [][(lastEvent'.kind = "move" /\ (lastEvent'.dx = 0 \/ ~isResizingActive)) =>
          UNCHANGED << viewColgroup, viewFigureWidth, tableWidthPx, activeResizers, tableResized,
                       resizingData, isResizingActive, isResizingAllowed, draggingState,
                       columnWidths, tableWidth, columnIndexMap >>]_vars

C24_Witness ==
    /\ AfterDrag /\ lastEvent.dx = 0 /\ lastEvent.displacement # 0
    /\ viewColgroup # session.viewColgroup

\* the outer widths of the cells the table walk assigns to a column
CellWidthsOfColumn(column) ==
    { getDomCellOuterWidth(viewColgroup, tableWidthPx, getColumns(rows),
                           TableWalker(rows)[i].column, TableWalker(rows)[i].cellWidth) :
        i \in { n \in 1..Len(TableWalker(rows)) : TableWalker(rows)[n].column = column } }

\* C25: the pixel width computed for a column at the press is the minimum
\* outer width among the cells the table walk assigns to that column, for
\* all cell widths, width 0 included.
C25_ColumnWidthIsMinimumOfItsCells ==
    measuredWidthsInPx # << >> =>
        \A column \in 0..(getColumns(rows) - 1) :
            CellWidthsOfColumn(column) # {} =>
                /\ measuredWidthsInPx[column + 1] \in CellWidthsOfColumn(column)
                /\ \A w \in CellWidthsOfColumn(column) : measuredWidthsInPx[column + 1] =< w

\* the pixel widths a press measures in the current state
PressMeasure == calculateDomColumnWidths(rows, columnIndexMap, viewColgroup, tableWidthPx).px

\* C26: whenever a session is open the view table has a colgroup with one
\* col per table column; a press on a table without a colgroup synthesises
\* one whose col widths are the measured pixel widths as percentages of
\* their sum, and a press on a table with a colgroup leaves its col widths
\* unchanged.
C26_OpenSessionHasColgroup ==
    [][/\ isResizingActive' =>
             viewColgroup'.has /\ Len(viewColgroup'.ws) = getColumns(rows')
       /\ lastEvent'.kind = "press" =>
             IF viewColgroup.has
             THEN viewColgroup' = viewColgroup
             ELSE /\ Len(viewColgroup'.ws) = Len(PressMeasure)
                  /\ \A i \in 1..Len(PressMeasure) :
                        viewColgroup'.ws[i] = toPrecision(PressMeasure[i] * 100, sumArray(PressMeasure))]_vars

C26_Witness ==
    /\ isResizingActive /\ lastEvent.kind = "press"
    /\ ~session.viewColgroup.has
    /\ viewColgroup.has /\ Len(viewColgroup.ws) = getColumns(rows)

\* C30: in every reachable state the resizing-active flag is true exactly
\* when the session data reference is non-null.
C30_ActiveIffSessionData ==
    isResizingActive <=> resizingData # NoData

C30_Witness ==
    /\ isResizingActive /\ resizingData # NoData
    /\ presses = 2 /\ lastEvent.kind = "move"

\* C27: on a layout-change notification the selected table is reconverted
\* if and only if the selection is inside a model table that has columnWidths
\* and whose view table exists and contains no colgroup; after that
\* reconversion later notifications reconvert the same unchanged table no
\* more.
C27_ReconvertedIffColgroupMissing ==
    [][/\ layoutChanges' # layoutChanges =>
             (reconversions' # reconversions <=>
                (modelTableSelected /\ columnWidths.has /\ viewTableSelected /\ ~viewColgroup.has))
       /\ layoutChanges' = layoutChanges => reconversions' = reconversions
       /\ reconversions >= 1 => reconversions' = reconversions]_vars

C27_Witness ==
    /\ reconversions = 1 /\ layoutChanges >= 2
    /\ modelTableSelected /\ viewTableSelected /\ columnWidths.has /\ viewColgroup.has

\* C21: the isOpen of the root list turns false only in the callback of the
\* timer and only when no registered menu is open; so it stays true, with no
\* change to false in between, when in one task a top-level menu opens and
\* another one closes, in either order.
C21_RootStaysOpenAcrossMenuSwitch ==
    [][(isOpen /\ ~isOpen') =>
          /\ lastMenuEvent'.kind = "timeout"
          /\ \A m \in Range(menus) : ~menuIsOpen[m]]_vars

C21_Witness ==
    /\ lastMenuEvent.kind = "timeout"
    /\ lastMenuEvent.task = << [menu |-> "menuB", isOpen |-> TRUE],
                               [menu |-> "menuA", isOpen |-> FALSE] >>
    /\ isOpen
    /\ menuIsOpen["menuB"]
    /\ ~closeTimeout

\* the ancestor menus of a menu view, along parentMenuView
RECURSIVE AncestorMenus(_)
AncestorMenus(m) ==
    IF parentMenuView[m] = NoMenu THEN {}
    ELSE {parentMenuView[m]} \cup AncestorMenus(parentMenuView[m])

\* the list items created with a parent menu view, and that menu view
ListItemsOf(m) == {ListItemOf[MenuItems[m][i]] : i \in 1..Len(MenuItems[m])}

Once(emitter, name) == [emitter |-> emitter, name |-> name, count |-> 1]

\* C22: 'mouseenter' of a list item of a menu is fired once on the item, once
\* on the menu that holds it, once on every ancestor of that menu and once
\* on the root list as 'menu:mouseenter'; 'mouseenter' of a menu is fired
\* once on the menu, once on every ancestor menu and once on the root list
\* as 'menu:mouseenter'; nothing else is fired.
C22_MouseEnterClimbsTheMenus ==
    lastMenuEvent.kind = "mouseenter" =>
        /\ \A m \in built :
              lastMenuEvent.source \in ListItemsOf(m) =>
                  lastMenuEvent.fired =
                      {Once(lastMenuEvent.source, "mouseenter"), Once(Root, "menu:mouseenter")}
                          \cup {Once(a, "mouseenter") : a \in {m} \cup AncestorMenus(m)}
        /\ lastMenuEvent.source \in Range(menus) =>
              lastMenuEvent.fired =
                  {Once(lastMenuEvent.source, "mouseenter"), Once(Root, "menu:mouseenter")}
                      \cup {Once(a, "mouseenter") : a \in AncestorMenus(lastMenuEvent.source)}

C22_Witness ==
    /\ lastMenuEvent.kind = "mouseenter"
    /\ lastMenuEvent.source = ListItemOf["buttonA1"]
    /\ Once("menuA1", "mouseenter") \in lastMenuEvent.fired
    /\ Once("menuA", "mouseenter") \in lastMenuEvent.fired
    /\ Once(Root, "menu:mouseenter") \in lastMenuEvent.fired

C29_ElementHoldsOneChild ==
    filterCalls >= 1 =>
        /\ Len(element) = 1
        /\ lastFilter.resultsCount # lastFilter.totalItemsCount =>
              element[1] = FoundListChild(filterCalls) /\ foundListView = element[1]
        /\ lastFilter.resultsCount = lastFilter.totalItemsCount =>
              element[1] = MenuViewChild /\ menuViewIsRendered
        /\ menuViewRenders <= 1

C29_Witness ==
    /\ filterCalls >= 3
    /\ element = << MenuViewChild >>
    /\ menuViewRenders = 1
    /\ foundListView = FoundListChild(filterCalls - 1)

\* C31: the active class is carried by a resize handle only while a session
\* on that handle is open: when the controller is idle no handle carries it,
\* at most one handle carries it at any time, and during a session it is the
\* handle of the session.
C31_ActiveClassOnlyOnSessionHandle ==
    /\ ~isResizingActive => activeResizers = {}
    /\ Cardinality(activeResizers) <= 1
    /\ isResizingActive => activeResizers = {resizingData.viewResizer}

\* C32: every entry of a columnWidths attribute that the post-fixer wrote is
\* a number above zero: no pass adds a donated width at an index the array
\* does not have, and none writes an entry that is not a number.
C32_WrittenEntriesArePositiveNumbers ==
    (AfterPass /\ lastPass.wrote) =>
        \A i \in 1..Len(columnWidths.ws) :
            columnWidths.ws[i] # NaN /\ columnWidths.ws[i] > 0

\* a batch that removed columns not at the table start and then inserted
\* columns, followed by a pass that wrote the attribute
C32_Witness ==
    /\ AfterPass
    /\ lastPass.wrote
    /\ Len(batch) = 2
    /\ batch[1].kind = "remove" /\ batch[1].at > 0
    /\ batch[2].kind = "insert" /\ batch[2].at > 0
    /\ Len(columnWidths.ws) = getColumns(rows)
    /\ columnWidths # batchStart

\* C33: when a session ends in which the editor was never read-only and
\* the feature and both commands were enabled throughout, and the widths of
\* the view differ from the model at that moment, the handler executes a
\* resize command: no pointer event of the session turns the end into a
\* revert.
C33_EnabledSessionCommits ==
    (SessionEnded /\ session.enabled
        /\ (lastEvent.isColumnWidthsAttributeChanged \/ lastEvent.isTableWidthAttributeChanged)) =>
            /\ lastEvent.command \in {"resizeTableWidth", "resizeColumnWidths"}
            /\ lastEvent.mutated

TypeOK == phase \in {"idle", "editing", "fixing"}
====
